---------------------------- MODULE Spec2Model ----------------------------
(***************************************************************************)
(* A model of scripts/parse_plan_pdf.py: the cell cleaner, the metric      *)
(* extractor, the segment classifier, the table assembler and the glossary *)
(* resolver.                                                               *)
(*                                                                         *)
(* A text is a sequence of one-character strings.  Two characters of the   *)
(* source that are not ASCII are written with ASCII stand-ins: the star    *)
(* glyph U+2605 is "*" and the en dash U+2013 is "~".  Python's None, where *)
(* a field may hold it, is the empty sequence, and a present value v is    *)
(* <<v>> (a range is the pair <<v1, v2>>).                                 *)
(***************************************************************************)
EXTENDS Integers, Sequences, FiniteSets, TLC

VARIABLES
    pc,         \* position of the run under the specification at hand
    text,       \* the text given to the function under check
    cleaned,    \* clean_cell_text(text)
    recleaned,  \* clean_cell_text(cleaned)
    metrics,    \* parse_metrics(text)
    rest,       \* text_without_distance of that call
    cell,       \* parse_cell(text)
    weeks,      \* extract_tables: the weeks emitted so far
    pageNo,     \* the number of the page at hand (0 before the first)
    strategy,   \* "lines" or "text": whose tables are being parsed
    before,     \* len(weeks) when the page was begun
    header,     \* parse_table: the normalized header of the table at hand
    current_week_num,   \* parse_table: None or Some(marker)
    current_cells,      \* parse_table: None or Some(the 7 accumulated texts)
    rowsSeen,   \* history: the body rows of the table at hand, as line 269 cleans them
    tableStart, \* history: len(weeks) when the table at hand was begun
    handed,     \* history: per emitted week, the 7 texts given to parse_cell
    origin,     \* history: per emitted week, its page and strategy
    textTried,  \* history: the pages whose text tables were extracted
    nRows,      \* the number of body rows read so far
    limits,     \* the size of the pdf: its pages and, over them all, its body rows
    left_raw,   \* extract_glossary: the text of the left half of the last page
    right_raw,  \* extract_glossary: the text of the right half
    glossary    \* extract_glossary's result

textVars == <<text, cleaned, recleaned, metrics, rest, cell>>
tableVars == <<weeks, pageNo, strategy, before, header, current_week_num,
               current_cells, rowsSeen, tableStart, handed, origin, textTried, nRows, limits>>
glossVars == <<left_raw, right_raw, glossary>>
vars == <<pc, textVars, tableVars, glossVars>>

---------------------------------------------------------------------------
(* Characters and character classes of Python's re, on the ASCII range.    *)

Star == "*"
EnDash == "~"

Digits == <<"0", "1", "2", "3", "4", "5", "6", "7", "8", "9">>
LowerLetters == <<"a", "b", "c", "d", "e", "f", "g", "h", "i", "j", "k", "l", "m",
                  "n", "o", "p", "q", "r", "s", "t", "u", "v", "w", "x", "y", "z">>
UpperLetters == <<"A", "B", "C", "D", "E", "F", "G", "H", "I", "J", "K", "L", "M",
                  "N", "O", "P", "Q", "R", "S", "T", "U", "V", "W", "X", "Y", "Z">>

Range(s) == {s[i] : i \in DOMAIN s}

DigitSet == Range(Digits)
LowerSet == Range(LowerLetters)
UpperSet == Range(UpperLetters)

\* \d
IsDigit(c) == c \in DigitSet
\* [A-Za-z]
IsAlpha(c) == c \in LowerSet \/ c \in UpperSet
\* \s
IsSpace(c) == c \in {" ", "\n", "\t"}
\* \w
IsWordChar(c) == IsAlpha(c) \/ IsDigit(c) \/ c = "_"

\* int() of one digit
DigitVal(c) == (CHOOSE i \in DOMAIN Digits : Digits[i] = c) - 1

\* str.lower() / str.upper() of one character
LowerChar(c) ==
    IF c \in UpperSet
    THEN LowerLetters[CHOOSE i \in DOMAIN UpperLetters : UpperLetters[i] = c]
    ELSE c
UpperChar(c) ==
    IF c \in LowerSet
    THEN UpperLetters[CHOOSE i \in DOMAIN LowerLetters : LowerLetters[i] = c]
    ELSE c

\* the sequence t laid out as a tuple, so that its elements are computed once
Built(t) == t \o <<>>

Lower(t) == Built([i \in 1..Len(t) |-> LowerChar(t[i])])
Upper(t) == Built([i \in 1..Len(t) |-> UpperChar(t[i])])

\* t[i:] and t[i:j] with 1-based i and exclusive j
From(t, i) == SubSeq(t, i, Len(t))
Slice(t, i, j) == SubSeq(t, i, j - 1)

\* the literal p stands in t at position i
LitAt(t, i, p) ==
    /\ i >= 1
    /\ i + Len(p) - 1 <= Len(t)
    /\ \A k \in 1..Len(p) : t[i + k - 1] = p[k]

\* \b between t[i-1] and t[i]
Boundary(t, i) ==
    LET wordLeft  == i > 1 /\ i - 1 <= Len(t) /\ IsWordChar(t[i - 1])
        wordRight == i >= 1 /\ i <= Len(t) /\ IsWordChar(t[i])
    IN  wordLeft # wordRight

\* the first position at or after i that \s* does not consume
SkipSpaces(t, i) ==
    IF \E j \in i..Len(t) : ~IsSpace(t[j])
    THEN CHOOSE j \in i..Len(t) : ~IsSpace(t[j]) /\ \A k \in i..(j - 1) : IsSpace(t[k])
    ELSE IF i > Len(t) THEN i ELSE Len(t) + 1

\* the first position at or after i that \d* does not consume
SkipDigits(t, i) ==
    IF \E j \in i..Len(t) : ~IsDigit(t[j])
    THEN CHOOSE j \in i..Len(t) : ~IsDigit(t[j]) /\ \A k \in i..(j - 1) : IsDigit(t[k])
    ELSE IF i > Len(t) THEN i ELSE Len(t) + 1

\* the first position at or after i that \w* does not consume
SkipWord(t, i) ==
    IF \E j \in i..Len(t) : ~IsWordChar(t[j])
    THEN CHOOSE j \in i..Len(t) : ~IsWordChar(t[j]) /\ \A k \in i..(j - 1) : IsWordChar(t[k])
    ELSE IF i > Len(t) THEN i ELSE Len(t) + 1

\* str.strip()
Strip(t) ==
    IF \A i \in 1..Len(t) : IsSpace(t[i]) THEN <<>>
    ELSE LET a == CHOOSE i \in 1..Len(t) :
                    ~IsSpace(t[i]) /\ \A j \in 1..(i - 1) : IsSpace(t[j])
             b == CHOOSE i \in 1..Len(t) :
                    ~IsSpace(t[i]) /\ \A j \in (i + 1)..Len(t) : IsSpace(t[j])
         IN  SubSeq(t, a, b)

(* re.sub(pattern, repl, t, count): scan left to right, replace each        *)
(* non-overlapping match by repl.  MatchEnd(t, i) is the position after the *)
(* match that starts at i, or 0 when none starts there (no pattern of the   *)
(* source matches the empty string).  count = 0 means every match.          *)
ReSub(t, MatchEnd(_, _), repl, count) ==
    LET go[i \in 1..(Len(t) + 1), n \in 0..Len(t)] ==
            IF i > Len(t) THEN <<>>
            ELSE LET e == IF count = 0 \/ n < count THEN MatchEnd(t, i) ELSE 0
                 IN  IF e > 0
                     THEN repl \o go[e, n + 1]
                     ELSE <<t[i]>> \o go[i + 1, n]
    IN  go[1, 0]

\* keep the characters of t whose position satisfies Keep
KeepWhere(t, Keep(_)) ==
    LET go[i \in 0..Len(t)] ==
            IF i = 0 THEN <<>>
            ELSE IF Keep(i) THEN Append(go[i - 1], t[i]) ELSE go[i - 1]
    IN  go[Len(t)]

---------------------------------------------------------------------------
(* The text normalizer.                                                    *)

\* every whitespace character of t as a blank
Blanked(t) == Built([i \in 1..Len(t) |-> IF IsSpace(t[i]) THEN " " ELSE t[i]])

\* re.sub(r'\s+', ' ', text or '').strip()
normalize_text(t) ==
    LET Keep(i) ==
            \/ ~IsSpace(t[i])
            \/ /\ i > 1
               /\ ~IsSpace(t[i - 1])
               /\ \E j \in (i + 1)..Len(t) : ~IsSpace(t[j])
    IN  Blanked(KeepWhere(t, Keep))

\* re.sub(r'(?<=[A-Za-z])\d+', '', text)
strip_footnotes(t) ==
    LET Keep(i) ==
            ~ /\ IsDigit(t[i])
              /\ \E j \in 1..(i - 1) :
                    /\ IsAlpha(t[j])
                    /\ \A k \in (j + 1)..i : IsDigit(t[k])
    IN  KeepWhere(t, Keep)

\* text.replace('\n', ' ')
ReplaceNewlines(t) == Built([i \in 1..Len(t) |-> IF t[i] = "\n" THEN " " ELSE t[i]])

\* (?<=\d)\s*iles\b at position i
IlesEnd(t, i) ==
    LET q == SkipSpaces(t, i)
    IN  IF /\ i > 1
           /\ IsDigit(t[i - 1])
           /\ LitAt(t, q, <<"i", "l", "e", "s">>)
           /\ Boundary(t, q + 4)
        THEN q + 4 ELSE 0

\* (star)\s*\d+\s*R\s+ at position i
StarEnd(t, i) ==
    LET d0 == SkipSpaces(t, i + 1)
        d1 == SkipDigits(t, d0)
        r  == SkipSpaces(t, d1)
        e  == SkipSpaces(t, r + 1)
    IN  IF /\ t[i] = Star
           /\ d1 > d0
           /\ r <= Len(t) /\ t[r] = "R"
           /\ e > r + 1
        THEN e ELSE 0

\* lines 63-64: a leading "est;" in any case becomes "Rest;"
RestRepaired(t) ==
    IF LitAt(Lower(t), 1, <<"e", "s", "t", ";">>)
    THEN <<"R", "e", "s", "t", ";">> \o From(t, 5)
    ELSE t

\* lines 61-69, on the normalized text t
Repaired(t) ==
    IF t = <<>> THEN t
    ELSE ReSub(ReSub(RestRepaired(t), IlesEnd, <<" ", "m", "i", "l", "e", "s">>, 0),
               StarEnd, <<Star, " ">>, 0)

clean_cell_text(raw) == Repaired(normalize_text(strip_footnotes(ReplaceNewlines(raw))))

---------------------------------------------------------------------------
(* The metric extractor.  A float read from decimal digits is the exact    *)
(* decimal [n, k], standing for n / 10^k, kept with no trailing zero in    *)
(* its fraction so that equal numbers are equal records.                   *)

None == <<>>
Some(v) == <<v>>

RECURSIVE Pow10(_)
Pow10(k) == IF k = 0 THEN 1 ELSE 10 * Pow10(k - 1)

RECURSIVE Canon(_)
Canon(v) ==
    IF v.k > 0 /\ v.n % 10 = 0 THEN Canon([n |-> v.n \div 10, k |-> v.k - 1]) ELSE v

\* int() of a run of digits
RECURSIVE IntOf(_)
IntOf(ds) ==
    IF ds = <<>> THEN 0
    ELSE 10 * IntOf(SubSeq(ds, 1, Len(ds) - 1)) + DigitVal(ds[Len(ds)])

\* a >= b
DecGeq(a, b) == a.n * Pow10(b.k) >= b.n * Pow10(a.k)
\* max(a, b): Python keeps the first argument unless the second is greater
DecMax(a, b) == IF DecGeq(a, b) THEN a ELSE b
DecOfInt(i) == [n |-> i, k |-> 0]

\* round(v / 1000.0, 4)
KmOfMeters(v) ==
    IF v.k <= 1 THEN Canon([n |-> v.n, k |-> v.k + 3])
    ELSE LET m == Pow10(v.k - 1)
             q == v.n \div m
             r == v.n % m
             up == 2 * r > m \/ (2 * r = m /\ q % 2 = 1)
         IN  Canon([n |-> IF up THEN q + 1 ELSE q, k |-> 4])

\* \d+(?:\.\d+)? at position i: the position after it, or 0
NumEnd(t, i) ==
    LET d == SkipDigits(t, i)
    IN  IF i > Len(t) \/ d = i THEN 0
        ELSE IF d + 1 <= Len(t) /\ t[d] = "." /\ IsDigit(t[d + 1])
             THEN SkipDigits(t, d + 1)
             ELSE d

\* float() of the number that stands at i and ends before e
NumVal(t, i, e) ==
    LET d == SkipDigits(t, i)
    IN  IF d = e THEN Canon([n |-> IntOf(Slice(t, i, e)), k |-> 0])
        ELSE Canon([n |-> IntOf(Slice(t, i, d) \o Slice(t, d + 1, e)), k |-> e - d - 1])

MileWords == { <<"m", "i", "l", "e">>, <<"m", "i", "l", "e", "s">>, <<"m", "i">> }
KmWords ==
    { <<"k", "m">>, <<"k", "m", "s">>,
      <<"k", "i", "l", "o", "m", "e", "t", "e", "r">>,
      <<"k", "i", "l", "o", "m", "e", "t", "e", "r", "s">>,
      <<"k", "i", "l", "o", "m", "e", "t", "r", "e">>,
      <<"k", "i", "l", "o", "m", "e", "t", "r", "e", "s">> }
MeterWords ==
    { <<"m", "e", "t", "e", "r">>, <<"m", "e", "t", "e", "r", "s">>,
      <<"m", "e", "t", "r", "e">>, <<"m", "e", "t", "r", "e", "s">> }
BareM == <<"m">>

\* the unit alternation of DISTANCE_RE and DISTANCE_RANGE_RE; with the \b that
\* follows it, the whole run of word characters is the unit
DistanceUnitWords == MileWords \cup KmWords \cup MeterWords \cup {BareM}

\* the unit alternation of MIN_RE, which a \b follows too
MinuteWords ==
    { <<"m", "i", "n", "u", "t", "e">>, <<"m", "i", "n", "u", "t", "e", "s">>,
      <<"m", "i", "n">>, <<"m", "i", "n", "s">>, <<"m">> }

IsDash(c) == c = "-" \/ c = EnDash

\* t holds the word w with a \b on either side
HasWord(t, w) ==
    \E i \in 1..Len(t) : LitAt(t, i, w) /\ Boundary(t, i) /\ Boundary(t, i + Len(w))

\* t holds w
Contains(t, w) == \E i \in 1..Len(t) : LitAt(t, i, w)

\* the least position where a match starts, or 0
FirstMatch(t, MatchEnd(_, _)) ==
    IF \E i \in 1..Len(t) : MatchEnd(t, i) > 0
    THEN CHOOSE i \in 1..Len(t) :
            MatchEnd(t, i) > 0 /\ \A j \in 1..(i - 1) : MatchEnd(t, j) = 0
    ELSE 0

\* DISTANCE_RANGE_RE at position i: the position after the match, or 0
DistanceRangeEnd(t, i) ==
    LET e1 == NumEnd(t, i)
        a  == SkipSpaces(t, e1)
        b  == SkipSpaces(t, a + 1)
        e2 == NumEnd(t, b)
        u  == SkipSpaces(t, e2)
        w  == SkipWord(t, u)
    IN  IF /\ e1 > 0
           /\ a <= Len(t) /\ IsDash(t[a])
           /\ e2 > 0
           /\ Slice(t, u, w) \in DistanceUnitWords
        THEN w ELSE 0

\* the groups v1, v2, unit of the DISTANCE_RANGE_RE match at i
DistanceRangeGroups(t, i) ==
    LET e1 == NumEnd(t, i)
        b  == SkipSpaces(t, SkipSpaces(t, e1) + 1)
        e2 == NumEnd(t, b)
        u  == SkipSpaces(t, e2)
    IN  [v1 |-> NumVal(t, i, e1), v2 |-> NumVal(t, b, e2),
         unit |-> Slice(t, u, SkipWord(t, u))]

\* DISTANCE_RE at position i
DistanceEnd(t, i) ==
    LET e == NumEnd(t, i)
        u == SkipSpaces(t, e)
        w == SkipWord(t, u)
    IN  IF e > 0 /\ Slice(t, u, w) \in DistanceUnitWords THEN w ELSE 0

DistanceGroups(t, i) ==
    LET e == NumEnd(t, i)
        u == SkipSpaces(t, e)
    IN  [val |-> NumVal(t, i, e), unit |-> Slice(t, u, SkipWord(t, u))]

\* RANGE_MIN_RE at position i; only its bare "m" is followed by \b
RangeMinEnd(t, i) ==
    LET d1 == SkipDigits(t, i)
        a  == SkipSpaces(t, d1)
        b  == SkipSpaces(t, a + 1)
        d2 == SkipDigits(t, b)
        u  == SkipSpaces(t, d2)
    IN  IF /\ d1 > i
           /\ a <= Len(t) /\ IsDash(t[a])
           /\ d2 > b
        THEN IF LitAt(t, u, <<"m", "i", "n", "u", "t", "e", "s">>) THEN u + 7
             ELSE IF LitAt(t, u, <<"m", "i", "n", "u", "t", "e">>) THEN u + 6
             ELSE IF LitAt(t, u, <<"m", "i", "n", "s">>) THEN u + 4
             ELSE IF LitAt(t, u, <<"m", "i", "n">>) THEN u + 3
             ELSE IF LitAt(t, u, <<"m">>) /\ Boundary(t, u + 1) THEN u + 1
             ELSE 0
        ELSE 0

RangeMinGroups(t, i) ==
    LET d1 == SkipDigits(t, i)
        b  == SkipSpaces(t, SkipSpaces(t, d1) + 1)
    IN  <<IntOf(Slice(t, i, d1)), IntOf(Slice(t, b, SkipDigits(t, b)))>>

\* MIN_RE at position i
MinEnd(t, i) ==
    LET d == SkipDigits(t, i)
        u == SkipSpaces(t, d)
        w == SkipWord(t, u)
    IN  IF d > i /\ Slice(t, u, w) \in MinuteWords THEN w ELSE 0

MinGroup(t, i) == IntOf(Slice(t, i, SkipDigits(t, i)))

\* (\bx\b|\breps?\b|\bstrides?\b|\binterval\b), re.I
MeterContext(full_text) ==
    LET t == Lower(full_text)
    IN  \/ HasWord(t, <<"x">>)
        \/ HasWord(t, <<"r", "e", "p">>)
        \/ HasWord(t, <<"r", "e", "p", "s">>)
        \/ HasWord(t, <<"s", "t", "r", "i", "d", "e">>)
        \/ HasWord(t, <<"s", "t", "r", "i", "d", "e", "s">>)
        \/ HasWord(t, <<"i", "n", "t", "e", "r", "v", "a", "l">>)

\* the magnitude from which a bare "m" is read as meters
MeterThreshold == 100

\* a faulty normalize_distance_unit: a bare "m" needs a value above the
\* threshold, so that exactly 100 no longer counts
normalize_distance_unit_strict(raw_unit, value, full_text) ==
    LET u == Lower(Strip(raw_unit))
    IN  IF u \in MileWords THEN "miles"
        ELSE IF u \in KmWords THEN "km"
        ELSE IF u \in MeterWords THEN "m"
        ELSE IF u = BareM
             THEN IF ~DecGeq(DecOfInt(MeterThreshold), value) THEN "m"
                  ELSE IF MeterContext(full_text) THEN "m" ELSE "None"
        ELSE "None"

normalize_distance_unit(raw_unit, value, full_text) ==
    LET u == Lower(Strip(raw_unit))
    IN  IF u \in MileWords THEN "miles"
        ELSE IF u \in KmWords THEN "km"
        ELSE IF u \in MeterWords THEN "m"
        ELSE IF u = BareM
             THEN IF DecGeq(value, DecOfInt(MeterThreshold)) THEN "m"
                  ELSE IF MeterContext(full_text) THEN "m" ELSE "None"
        ELSE "None"

NoMetrics ==
    [distance_value |-> None, distance_unit |-> "None", distance_range |-> None,
     distance_miles |-> None, distance_miles_range |-> None,
     distance_km |-> None, distance_km_range |-> None,
     distance_meters |-> None, distance_meters_range |-> None,
     duration_minutes |-> None, duration_minutes_range |-> None]

\* the value parse_metrics keeps of an accepted range v1-v2
RangeRepresentative(v1, v2) == v2

\* lines 120-133: the fields of an accepted range, rep its representative
RangeMetrics(v1, v2, unit, rep) ==
    [NoMetrics EXCEPT
        !.distance_range = <<v1, v2>>,
        !.distance_unit = unit,
        !.distance_value = Some(rep),
        !.distance_miles_range = IF unit = "miles" THEN <<v1, v2>> ELSE None,
        !.distance_miles = IF unit = "miles" THEN Some(rep) ELSE None,
        !.distance_meters_range = IF unit = "m" THEN <<v1, v2>> ELSE None,
        !.distance_meters = IF unit = "m" THEN Some(rep) ELSE None,
        !.distance_km_range =
            IF unit = "km" THEN <<v1, v2>>
            ELSE IF unit = "m" THEN <<KmOfMeters(v1), KmOfMeters(v2)>> ELSE None,
        !.distance_km =
            IF unit = "km" THEN Some(rep)
            ELSE IF unit = "m" THEN Some(KmOfMeters(rep)) ELSE None]

\* lines 119-134: the range match v1-v2 whose unit normalizes to unit
RangeFields(t, v1, v2, unit) ==
    IF unit = "None"
    THEN [m |-> NoMetrics, rest |-> t]
    ELSE [m |-> RangeMetrics(v1, v2, unit, RangeRepresentative(v1, v2)),
          rest |-> ReSub(t, DistanceRangeEnd, <<>>, 1)]

\* lines 116-118: the groups g of the range match
RangeOf(t, g) ==
    RangeFields(t, g.v1, g.v2, normalize_distance_unit(g.unit, DecMax(g.v1, g.v2), t))

\* lines 140-150: the single match of value val whose unit normalizes to unit
SingleFields(t, val, unit) ==
    IF unit = "None"
    THEN [m |-> NoMetrics, rest |-> t]
    ELSE [m |-> [NoMetrics EXCEPT
                    !.distance_value = Some(val),
                    !.distance_unit = unit,
                    !.distance_miles = IF unit = "miles" THEN Some(val) ELSE None,
                    !.distance_meters = IF unit = "m" THEN Some(val) ELSE None,
                    !.distance_km =
                        IF unit = "km" THEN Some(val)
                        ELSE IF unit = "m" THEN Some(KmOfMeters(val)) ELSE None],
          rest |-> ReSub(t, DistanceEnd, <<>>, 1)]

\* lines 138-139: the groups g of the single match
SingleOf(t, g) == SingleFields(t, g.val, normalize_distance_unit(g.unit, g.val, t))

\* lines 115-150: ri and si are where the range and the single pattern match
DistanceAt(t, ri, si) ==
    IF ri > 0 THEN RangeOf(t, DistanceRangeGroups(t, ri))
    ELSE IF si > 0 THEN SingleOf(t, DistanceGroups(t, si))
    ELSE [m |-> NoMetrics, rest |-> t]

\* lines 113-150: the distance fields and text_without_distance
DistancePart(t) == DistanceAt(t, FirstMatch(t, DistanceRangeEnd), FirstMatch(t, DistanceEnd))

\* lines 153-158: ri and mi are where RANGE_MIN_RE and MIN_RE match
DurationAt(m, t, ri, mi) ==
    IF ri > 0 THEN [m EXCEPT !.duration_minutes_range = RangeMinGroups(t, ri)]
    ELSE IF mi > 0 THEN [m EXCEPT !.duration_minutes = Some(MinGroup(t, mi))]
    ELSE m

\* lines 152-158: the durations, read in text_without_distance
WithDuration(d) ==
    DurationAt(d.m, d.rest, FirstMatch(d.rest, RangeMinEnd), FirstMatch(d.rest, MinEnd))

parse_metrics(txt) == WithDuration(DistancePart(Lower(txt)))

---------------------------------------------------------------------------
(* The segment classifier.                                                 *)

\* ^strength\s*\d+, re.I
StrengthRule(seg) ==
    LET t == Lower(seg)
        w == <<"s", "t", "r", "e", "n", "g", "t", "h">>
        d == SkipSpaces(t, Len(w) + 1)
    IN  LitAt(t, 1, w) /\ d <= Len(t) /\ IsDigit(t[d])

\* SEGMENT_RULES: the tag, the literal, and whether \b stands on both sides
SEGMENT_RULES ==
    << [tag |-> "strength", lit |-> <<>>, word |-> FALSE],
       [tag |-> "rest", lit |-> <<"r", "e", "s", "t", " ", "d", "a", "y">>, word |-> TRUE],
       [tag |-> "cross-training",
        lit |-> <<"c", "r", "o", "s", "s", " ", "t", "r", "a", "i", "n", "i", "n", "g">>,
        word |-> FALSE],
       [tag |-> "training-race",
        lit |-> <<"t", "r", "a", "i", "n", "i", "n", "g", " ", "r", "a", "c", "e">>,
        word |-> FALSE],
       [tag |-> "race", lit |-> <<"r", "a", "c", "e">>, word |-> TRUE],
       [tag |-> "incline-treadmill",
        lit |-> <<"i", "n", "c", "l", "i", "n", "e", " ",
                  "t", "r", "e", "a", "d", "m", "i", "l", "l">>,
        word |-> FALSE],
       [tag |-> "hill-pyramid",
        lit |-> <<"h", "i", "l", "l", " ", "p", "y", "r", "a", "m", "i", "d">>,
        word |-> FALSE],
       [tag |-> "hills", lit |-> <<"h", "i", "l", "l", "s">>, word |-> TRUE],
       [tag |-> "tempo", lit |-> <<"t", "e", "m", "p", "o">>, word |-> FALSE],
       [tag |-> "progression", lit |-> <<"p", "r", "o", "g", "r", "e", "s">>, word |-> FALSE],
       [tag |-> "recovery", lit |-> <<"r", "e", "c", "o", "v", "e", "r", "y">>, word |-> FALSE],
       [tag |-> "trail-run", lit |-> <<"t", "r", "a", "i", "l">>, word |-> TRUE],
       [tag |-> "fast-finish",
        lit |-> <<"f", "a", "s", "t", " ", "f", "i", "n", "i", "s", "h">>, word |-> FALSE],
       [tag |-> "lrl", lit |-> <<"l", "r", "l">>, word |-> TRUE],
       [tag |-> "hike", lit |-> <<"h", "i", "k", "e">>, word |-> TRUE],
       [tag |-> "easy-run", lit |-> <<"e", "a", "s", "y">>, word |-> TRUE] >>

\* rx.search(seg) for one rule
RuleMatches(rule, seg) ==
    IF rule.tag = "strength" THEN StrengthRule(seg)
    ELSE IF rule.word THEN HasWord(Lower(seg), rule.lit)
    ELSE Contains(Lower(seg), rule.lit)

classify_segment(seg) ==
    IF \E i \in DOMAIN SEGMENT_RULES : RuleMatches(SEGMENT_RULES[i], seg)
    THEN SEGMENT_RULES[CHOOSE i \in DOMAIN SEGMENT_RULES :
            /\ RuleMatches(SEGMENT_RULES[i], seg)
            /\ \A j \in 1..(i - 1) : ~RuleMatches(SEGMENT_RULES[j], seg)].tag
    ELSE "unknown"

TYPE_PRIORITY ==
    << "rest", "race", "training-race", "strength", "tempo", "hills", "hill-pyramid",
       "incline-treadmill", "progression", "trail-run", "recovery", "easy-run",
       "cross-training", "hike", "lrl", "fast-finish", "unknown" >>

\* \s*\+\s* at position i
PlusEnd(t, i) ==
    LET q == SkipSpaces(t, i)
    IN  IF q <= Len(t) /\ t[q] = "+" THEN SkipSpaces(t, q + 1) ELSE 0

\* re.split(pattern, t): the pieces between the non-overlapping matches
ReSplit(t, MatchEnd(_, _)) ==
    LET go[i \in 1..(Len(t) + 1), start \in 1..(Len(t) + 1)] ==
            IF i > Len(t) THEN <<Slice(t, start, Len(t) + 1)>>
            ELSE LET e == MatchEnd(t, i)
                 IN  IF e > 0
                     THEN <<Slice(t, start, i)>> \o go[e, e]
                     ELSE go[i + 1, start]
    IN  go[1, 1]

\* the pieces normalized, and those among them that are not empty
NormalizedPieces(pieces) ==
    SelectSeq(Built([i \in 1..Len(pieces) |-> normalize_text(pieces[i])]),
              LAMBDA x : x # <<>>)

\* [normalize_text(s) for s in re.split(...) if normalize_text(s)]
Segments(rawtext) == NormalizedPieces(ReSplit(rawtext, PlusEnd))

\* a faulty TypeGuess: the last tag of the priority list that is among the
\* tags found
TypeGuessLast(priority, found) ==
    IF \E i \in DOMAIN priority : priority[i] \in found
    THEN priority[CHOOSE i \in DOMAIN priority :
            /\ priority[i] \in found
            /\ \A j \in (i + 1)..Len(priority) : priority[j] \notin found]
    ELSE "unknown"

\* the first tag of the priority list that is among the tags found
TypeGuess(priority, found) ==
    IF \E i \in DOMAIN priority : priority[i] \in found
    THEN priority[CHOOSE i \in DOMAIN priority :
            /\ priority[i] \in found
            /\ \A j \in 1..(i - 1) : priority[j] \notin found]
    ELSE "unknown"

EmptyDayCell ==
    [raw |-> <<>>, segments |-> <<>>, segments_parsed |-> <<>>,
     type_guess |-> "unknown", metrics |-> <<>>]

\* lines 194-203: the parsed segments
SegmentsParsed(segments) ==
    Built([i \in 1..Len(segments) |->
             [text |-> segments[i],
              type |-> classify_segment(segments[i]),
              metrics |-> parse_metrics(segments[i])]])

\* found: the set of the types of the parsed segments
Found(segments_parsed) == {segments_parsed[i].type : i \in 1..Len(segments_parsed)}

\* lines 211-217
CellOf(rawtext, segments, segments_parsed) ==
    [raw |-> rawtext,
     segments |-> segments,
     segments_parsed |-> segments_parsed,
     type_guess |-> TypeGuess(TYPE_PRIORITY, Found(segments_parsed)),
     metrics |-> parse_metrics(rawtext)]

\* lines 193-217, of segments
CellOfSegments(rawtext, segments) == CellOf(rawtext, segments, SegmentsParsed(segments))

\* lines 184-217, of the cleaned text
CellOfRaw(rawtext) ==
    IF rawtext = <<>> THEN EmptyDayCell ELSE CellOfSegments(rawtext, Segments(rawtext))

parse_cell(cell_text) == CellOfRaw(clean_cell_text(cell_text))

---------------------------------------------------------------------------
(* The table assembler: parse_table's row classification and flush_week.   *)

DAY_KEYS == <<"monday", "tuesday", "wednesday", "thursday", "friday", "saturday", "sunday">>

T_WEEK == <<"W", "E", "E", "K">>
T_TWM == <<"T", "W", "M">>
HEADER_ROW ==
    << <<"M", "O", "N", "D", "A", "Y">>,
       <<"T", "U", "E", "S", "D", "A", "Y">>,
       <<"W", "E", "D", "N", "E", "S", "D", "A", "Y">>,
       <<"T", "H", "U", "R", "S", "D", "A", "Y">>,
       <<"F", "R", "I", "D", "A", "Y">>,
       <<"S", "A", "T", "U", "R", "D", "A", "Y">>,
       <<"S", "U", "N", "D", "A", "Y">> >>
HEADER_ROW_WITH_WEEK == <<T_WEEK>> \o HEADER_ROW
HEADER_ROW_WITH_WEEK_TWM == <<T_WEEK>> \o HEADER_ROW \o <<T_TWM>>

\* [normalize_text(h).upper() for h in table[0]]
NormalizedHeader(row0) == Built([i \in 1..Len(row0) |-> Upper(normalize_text(row0[i]))])

\* header in (HEADER_ROW, HEADER_ROW_WITH_WEEK, HEADER_ROW_WITH_WEEK_TWM)
HeaderAccepted(hdr) ==
    hdr \in {HEADER_ROW, HEADER_ROW_WITH_WEEK, HEADER_ROW_WITH_WEEK_TWM}

\* str.isdigit()
IsDigitText(t) == t # <<>> /\ \A i \in 1..Len(t) : IsDigit(t[i])

\* str(n) for n >= 0
RECURSIVE StrOfInt(_)
StrOfInt(n) ==
    IF n < 10 THEN <<Digits[n + 1]>>
    ELSE StrOfInt(n \div 10) \o <<Digits[(n % 10) + 1]>>

\* the width of the week grid that rows are padded and cut to
NDays == 7

\* (xs + [''] * 7)[:7]
PadCut(xs) == Built([i \in 1..NDays |-> IF i <= Len(xs) THEN xs[i] ELSE <<>>])

\* row = [clean_cell_text(c) for c in row]
CleanRow(row) == Built([i \in 1..Len(row) |-> clean_cell_text(row[i])])

\* rows that the loop passes over: the empty row and the literal WEEK row
RowSkipped(row) == row = <<>> \/ Upper(row[1]) = T_WEEK

\* the 7 weekday cells of a cleaned row under a header
RowCells(hdr, row) ==
    IF hdr = HEADER_ROW THEN PadCut(row)
    ELSE IF hdr = HEADER_ROW_WITH_WEEK THEN PadCut(Tail(row))
    ELSE PadCut(SubSeq(row, 2, IF Len(row) < 8 THEN Len(row) ELSE 8))

RowIsNewWeek(hdr, row) ==
    IF hdr = HEADER_ROW
    THEN \E i \in 1..NDays : Strip(RowCells(hdr, row)[i]) # <<>>
    ELSE IsDigitText(Strip(row[1]))

RowWeekMarker(hdr, row, nweeks) ==
    IF hdr = HEADER_ROW
    THEN IF RowIsNewWeek(hdr, row) THEN StrOfInt(nweeks + 1) ELSE <<>>
    ELSE row[1]

\* a faulty WeekOf: a day gets its entry only when its cell holds text
WeekOfFilled(cells) ==
    [days |-> [d \in {DAY_KEYS[i] : i \in {j \in DOMAIN DAY_KEYS : cells[j] # <<>>}} |->
                  parse_cell(cells[CHOOSE i \in DOMAIN DAY_KEYS : DAY_KEYS[i] = d])]]

\* the week flush_week builds of the 7 accumulated cells
WeekOf(cells) ==
    [days |-> [d \in Range(DAY_KEYS) |->
                  parse_cell(cells[CHOOSE i \in DOMAIN DAY_KEYS : DAY_KEYS[i] = d])]]

\* not current_week_num or not current_cells
NothingToFlush(num, cells) ==
    \/ num = None \/ num[1] = <<>>
    \/ cells = None \/ cells[1] = <<>>

\* a faulty JoinCell: the continuation text is appended with no separator
JoinCellNoSpace(cur, new) ==
    IF new # <<>>
    THEN IF cur # <<>> THEN Strip(cur \o new) ELSE new
    ELSE cur

\* lines 301-305: a continuation cell joins the accumulated text
JoinCell(cur, new) ==
    IF new # <<>>
    THEN IF cur # <<>> THEN Strip(cur \o <<" ">> \o new) ELSE new
    ELSE cur

\* a faulty FlushAtEnd: the table ends with no closing flush_week
FlushAtEndDropped(num, cells) == FALSE

\* line 307: what parse_table does after its last row
FlushAtEnd(num, cells) == ~NothingToFlush(num, cells)

\* a faulty FallbackNeeded: the text strategy runs only while no week at all
\* has been found
FallbackNeededGlobal(nweeks, before_) == nweeks = 0

\* line 315: the text strategy runs when the line tables added no week
FallbackNeeded(nweeks, before_) == nweeks = before_

---------------------------------------------------------------------------
(* The glossary extractor.                                                 *)

LABELS ==
    << <<"4", " ", "x", " ", "3", "0", " ", "s", "e", "c", "o", "n", "d", " ",
         "f", "l", "a", "t", " ", "a", "n", "d", " ", "f", "a", "s", "t">>,
       <<"S", "t", "r", "e", "n", "g", "t", "h">>,
       <<"E", "a", "s", "y">>,
       <<"T", "e", "m", "p", "o">>,
       <<"P", "r", "o", "g", "r", "e", "s", "s", "i", "o", "n", " ", "R", "u", "n">>,
       <<"H", "i", "l", "l", " ", "P", "y", "r", "a", "m", "i", "d">>,
       <<"I", "n", "c", "l", "i", "n", "e", " ",
         "T", "r", "e", "a", "d", "m", "i", "l", "l">>,
       <<"H", "i", "l", "l", "s">>,
       <<"C", "r", "o", "s", "s", " ", "t", "r", "a", "i", "n", "i", "n", "g">>,
       <<"R", "e", "c", "o", "v", "e", "r", "y", " ", "r", "u", "n", " ",
         "o", "r", " ", "h", "i", "k", "e">>,
       <<"F", "a", "s", "t", " ", "F", "i", "n", "i", "s", "h">>,
       <<"L", "R", "L">>,
       <<"T", "r", "a", "i", "n", "i", "n", "g", " ", "R", "a", "c", "e">> >>

\* label.lower(), for each label
LowerLabels == [k \in DOMAIN LABELS |-> Lower(LABELS[k])]

\* the alternative of (label|label|...)\s*: that matches at i of the lowercased
\* text lt (re.IGNORECASE): the first label in order that stands at i with \s*:
\* after it; 0 when none
LabelAt(lt, i) ==
    LET Fits(k) ==
            /\ lt[i] = LowerLabels[k][1]
            /\ LitAt(lt, i, LowerLabels[k])
            /\ LET c == SkipSpaces(lt, i + Len(LABELS[k]))
               IN  c <= Len(lt) /\ lt[c] = ":"
        fit == {k \in DOMAIN LABELS : Fits(k)}
    IN  IF fit = {} THEN 0 ELSE CHOOSE k \in fit : \A j \in fit : k <= j

\* the position after \s*:\s* behind label k standing at i; 0 when k is 0
AfterLabel(lt, i, k) ==
    IF k = 0 THEN 0
    ELSE SkipSpaces(lt, SkipSpaces(lt, i + Len(LABELS[k])) + 1)

\* rx at position i of the lowercased text: the position after (label)\s*:\s*, or 0
LabelColonEnd(lt, i) == AfterLabel(lt, i, LabelAt(lt, i))

\* list(rx.finditer(text)): the spans [s, e) of the non-overlapping matches
FindAll(t, MatchEnd(_, _)) ==
    LET go[i \in 1..(Len(t) + 1)] ==
            IF i > Len(t) THEN <<>>
            ELSE LET e == MatchEnd(t, i)
                 IN  IF e > 0 THEN <<[s |-> i, e |-> e]>> \o go[e] ELSE go[i + 1]
    IN  go[1]

\* a run of whitespace at i
SpaceRunEnd(t, i) == IF IsSpace(t[i]) THEN SkipSpaces(t, i) ELSE 0

\* str.strip(chars)
StripChars(t, chars) ==
    IF \A i \in 1..Len(t) : t[i] \in chars THEN <<>>
    ELSE LET a == CHOOSE i \in 1..Len(t) :
                    t[i] \notin chars /\ \A j \in 1..(i - 1) : t[j] \in chars
             b == CHOOSE i \in 1..Len(t) :
                    t[i] \notin chars /\ \A j \in (i + 1)..Len(t) : t[j] \in chars
         IN  SubSeq(t, a, b)

T_disclaimer == <<"d", "i", "s", "c", "l", "a", "i", "m", "e", "r", ":">>

\* line 359: "disclaimer:" at i
DisclaimerEnd(u, i) == IF LitAt(u, i, T_disclaimer) THEN i + 1 ELSE 0

\* lines 360-361: the definition d cut before the disclaimer found at position at
CutAt(d, at) == IF at > 0 THEN Strip(Slice(d, 1, at)) ELSE d

\* lines 359-361: the definition up to the first "disclaimer:" in any case
BeforeDisclaimer(d) == CutAt(d, FirstMatch(Lower(d), DisclaimerEnd))

\* line 362
Tidied(d) == StripChars(ReSub(d, SpaceRunEnd, <<" ">>, 0), {" ", "-", ";"})

\* lines 356-358: the text between match j and the next match, or the end
Between(t, ms, j) ==
    Strip(Slice(t, ms[j].e, IF j < Len(ms) THEN ms[j + 1].s ELSE Len(t) + 1))

\* lines 356-362: the definition of match j of the column
DefinitionOf(t, ms, j) == Tidied(BeforeDisclaimer(Between(t, ms, j)))

\* m.group(1).lower() of each match
KeysOf(lt, ms) == Built([j \in 1..Len(ms) |-> LowerLabels[LabelAt(lt, ms[j].s)]])

\* the last match of key k
LastOf(key, k) ==
    CHOOSE j \in DOMAIN key : key[j] = k /\ \A j2 \in (j + 1)..Len(key) : key[j2] # k

\* lines 355-363: entries[key] = definition, match after match
EntriesOf(t, ms, key) ==
    [k \in Range(key) |-> DefinitionOf(t, ms, LastOf(key, k))]

\* the matches ms of the column
ColumnOfMatches(t, lt, ms) == EntriesOf(t, ms, KeysOf(lt, ms))

\* the column t and its lowercased text lt
ColumnOf(t, lt) == ColumnOfMatches(t, lt, FindAll(lt, LabelColonEnd))

\* parse_column: key -> definition, a later match of a key replacing an earlier
parse_column(t) == ColumnOf(t, Lower(t))

\* len(s.split())
WordCount(t) ==
    Cardinality({i \in 1..Len(t) : ~IsSpace(t[i]) /\ (i = 1 \/ IsSpace(t[i - 1]))})

\* a faulty Best: the last of the candidates of the greatest word count
BestLast(cand) ==
    cand[CHOOSE i \in 1..Len(cand) :
            /\ \A j \in 1..Len(cand) : WordCount(cand[j]) <= WordCount(cand[i])
            /\ \A j \in (i + 1)..Len(cand) : WordCount(cand[j]) < WordCount(cand[i])]

\* max(cand, key=lambda s: len(s.split())): the first of the greatest
Best(cand) ==
    cand[CHOOSE i \in 1..Len(cand) :
            /\ \A j \in 1..Len(cand) : WordCount(cand[j]) <= WordCount(cand[i])
            /\ \A j \in 1..(i - 1) : WordCount(cand[j]) < WordCount(cand[i])]

\* lines 374-377
Candidates(left_entries, right_entries, key) ==
    (IF key \in DOMAIN left_entries THEN <<left_entries[key]>> ELSE <<>>)
    \o (IF key \in DOMAIN right_entries THEN <<right_entries[key]>> ELSE <<>>)

\* lines 382-387: the other labels found as whole words in the lowercased
\* definition lb
IssuesIn(key, lb) ==
    LET hit(k) == LowerLabels[k] # key /\ HasWord(lb, LowerLabels[k])
        go[k \in 0..Len(LABELS)] ==
            IF k = 0 THEN <<>>
            ELSE IF hit(k) THEN Append(go[k - 1], <<"overlap_with_label:", LABELS[k]>>)
                 ELSE go[k - 1]
    IN  go[Len(LABELS)]

Issues(key, best) == IssuesIn(key, Lower(best))

\* lines 392-398
EntryRecord(k, best, issues) ==
    [title |-> LABELS[k], definition |-> best, section |-> None,
     needs_review |-> Len(issues) > 0, issues |-> issues]

\* lines 380-398
EntryOfBest(k, best) == EntryRecord(k, best, Issues(LowerLabels[k], best))

\* lines 378-398
EntryOfCandidates(k, cand) ==
    IF cand = <<>> THEN None ELSE Some(EntryOfBest(k, Best(cand)))

\* lines 369-398: the entry of label k, or None when no column matched it
EntryOf(left_entries, right_entries, k) ==
    EntryOfCandidates(k, Candidates(left_entries, right_entries, LowerLabels[k]))

\* lines 388-390: the titles under review, in the order of the labels
ReviewNeeded(entry) ==
    LET review[k \in 0..Len(LABELS)] ==
            IF k = 0 THEN <<>>
            ELSE IF entry[k] # None /\ entry[k][1].needs_review
                 THEN Append(review[k - 1], LABELS[k])
                 ELSE review[k - 1]
    IN  review[Len(LABELS)]

\* lines 400-405: entry[k] is the entry of label k
GlossaryOf(entry) ==
    [sections |-> <<>>,
     entries |-> [key \in {LowerLabels[k] : k \in {j \in DOMAIN LABELS : entry[j] # None}} |->
                    entry[CHOOSE k \in DOMAIN LABELS : LowerLabels[k] = key][1]],
     review_needed |-> ReviewNeeded(entry)]

\* lines 369-398, of the two parsed columns
Resolved(left_entries, right_entries) ==
    GlossaryOf(Built([k \in DOMAIN LABELS |-> EntryOf(left_entries, right_entries, k)]))

extract_glossary(ltext, rtext) ==
    Resolved(parse_column(normalize_text(ltext)), parse_column(normalize_text(rtext)))

NoGlossary == [sections |-> <<>>, entries |-> <<>>, review_needed |-> <<>>]

---------------------------------------------------------------------------
(* Bounded inputs: a text is the concatenation of at most n fragments.     *)

RECURSIVE Concat(_)
Concat(fs) == IF fs = <<>> THEN <<>> ELSE Head(fs) \o Concat(Tail(fs))

TextsOf(frags, n) ==
    {Concat(fs) : fs \in UNION {[1..k -> frags] : k \in 0..n}}

MaxCleanFrags == 4

CleanFragments ==
    { <<"e", "s", "t", ";">>,
      <<"i", "l", "e", "s">>,
      <<Star>>,
      <<"4", " ", "R", " ">>,
      <<"5">>,
      <<"a">>,
      <<" ">>,
      <<"\n">> }

IdleText ==
    /\ text = <<>>
    /\ cleaned = <<>>
    /\ recleaned = <<>>
    /\ metrics = NoMetrics
    /\ rest = <<>>
    /\ cell = EmptyDayCell

GlossaryIdle ==
    /\ left_raw = <<>>
    /\ right_raw = <<>>
    /\ glossary = NoGlossary

TablesIdle ==
    /\ weeks = <<>>
    /\ pageNo = 0
    /\ strategy = "lines"
    /\ before = 0
    /\ header = <<>>
    /\ current_week_num = None
    /\ current_cells = None
    /\ rowsSeen = <<>>
    /\ tableStart = 0
    /\ handed = <<>>
    /\ origin = <<>>
    /\ textTried = {}
    /\ nRows = 0
    /\ limits = [pages |-> 0, rows |-> 0]

---------------------------------------------------------------------------
(* Specification of the cleaner: a cell text is cleaned once, and the      *)
(* result is cleaned again (parse_table cleans each row's cells and        *)
(* parse_cell cleans what flush_week hands it).                            *)

InitClean ==
    /\ pc = "start"
    /\ text \in TextsOf(CleanFragments, MaxCleanFrags)
    /\ cleaned = <<>>
    /\ recleaned = <<>>
    /\ metrics = NoMetrics
    /\ rest = <<>>
    /\ cell = EmptyDayCell
    /\ TablesIdle
    /\ GlossaryIdle

CleanOnce ==
    /\ pc = "start"
    /\ cleaned' = clean_cell_text(text)
    /\ pc' = "cleaned"
    /\ UNCHANGED <<text, recleaned, metrics, rest, cell, tableVars, glossVars>>

CleanTwice ==
    /\ pc = "cleaned"
    /\ recleaned' = clean_cell_text(cleaned)
    /\ pc' = "recleaned"
    /\ UNCHANGED <<text, cleaned, metrics, rest, cell, tableVars, glossVars>>

NextClean == CleanOnce \/ CleanTwice

SpecClean == InitClean /\ [][NextClean]_vars

---------------------------------------------------------------------------
(* Specification of the metric extractor: parse_metrics is applied to a    *)
(* text.                                                                   *)

MaxMetricFrags == 3

MetricFragments ==
    { <<"3">>, <<"1", "0", "0">>, <<"5", "-">>,
      <<".">>, <<" ">>,
      <<"m">>, <<"m", "i", "l", "e", "s">>, <<"k", "m">>,
      <<" ", "x", " ">> }

InitMetrics ==
    /\ pc = "start"
    /\ text \in TextsOf(MetricFragments, MaxMetricFrags)
    /\ cleaned = <<>>
    /\ recleaned = <<>>
    /\ metrics = NoMetrics
    /\ rest = <<>>
    /\ cell = EmptyDayCell
    /\ TablesIdle
    /\ GlossaryIdle

ParseMetrics ==
    /\ pc = "start"
    /\ metrics' = parse_metrics(text)
    /\ rest' = DistancePart(Lower(text)).rest
    /\ pc' = "metrics"
    /\ UNCHANGED <<text, cleaned, recleaned, cell, tableVars, glossVars>>

NextMetrics == ParseMetrics

SpecMetrics == InitMetrics /\ [][NextMetrics]_vars

---------------------------------------------------------------------------
(* Specification of the cell parser: parse_cell is applied to a cell text. *)

MaxCellFrags == 4

CellFragments ==
    { <<"e", "s", "t", ";">>,
      <<"R", "e", "s", "t", " ", "D", "a", "y">>,
      <<"r", "a", "c", "e">>,
      <<"e", "a", "s", "y">>,
      <<"t", "r", "a", "i", "n", "i", "n", "g">>,
      <<" ">>,
      <<"+">>,
      <<"3", "0", " ", "m", "i", "n", "u", "t", "e", "s">> }

InitCell ==
    /\ pc = "start"
    /\ text \in TextsOf(CellFragments, MaxCellFrags)
    /\ cleaned = <<>>
    /\ recleaned = <<>>
    /\ metrics = NoMetrics
    /\ rest = <<>>
    /\ cell = EmptyDayCell
    /\ TablesIdle
    /\ GlossaryIdle

ParseCell ==
    /\ pc = "start"
    /\ cell' = parse_cell(text)
    /\ pc' = "parsed"
    /\ UNCHANGED <<text, cleaned, recleaned, metrics, rest, tableVars, glossVars>>

NextCell == ParseCell

SpecCell == InitCell /\ [][NextCell]_vars

---------------------------------------------------------------------------
(* Specification of extract_tables.  The pdf is read as it is walked: each *)
(* step takes the next page, the next table of the strategy at hand, or    *)
(* the next body row of the table at hand, out of small sets.              *)

\* a pdf of MaxPages pages holding MaxRows body rows in all
MaxPages == 2
MaxRows == 2
\* a pdf of one page holding MaxPageRows body rows
MaxPageRows == 3

T_easy == <<"e", "a", "s", "y">>
T_5iles == <<"5", "i", "l", "e", "s">>
T_rest == <<"R", "e", "s", "t", " ", "D", "a", "y">>
T_1 == <<"1">>
T_x == <<"x">>

\* first rows of tables: the three accepted shapes (one as the page prints
\* it, in mixed case and padded), and a header that is not a plan's
HeaderRows ==
    { HEADER_ROW,
      HEADER_ROW_WITH_WEEK,
      <<<<"W", "e", "e", "k", " ">>>> \o HEADER_ROW \o <<T_TWM>>,
      << <<"M", "o", "n">>, <<"T", "u", "e">> >> }

\* body rows: of fewer than 7 and of more than 8 cells, with and without a
\* week number, an empty row, a row of empty cells, a WEEK label row
BodyRows ==
    { <<T_1, T_easy, <<>>, T_rest>>,
      << <<>>, T_5iles, T_x, <<>>, <<>>, <<>>, <<>>, <<>>, T_x, T_x>>,
      << <<>>, T_rest, <<>> >>,
      <<>>,
      <<T_WEEK, T_easy>> }

\* weeks = []
StartOfExtract(npages, nrows) ==
    /\ pc = "pages"
    /\ IdleText
    /\ weeks = <<>>
    /\ pageNo = 0
    /\ strategy = "lines"
    /\ before = 0
    /\ header = <<>>
    /\ current_week_num = None
    /\ current_cells = None
    /\ rowsSeen = <<>>
    /\ tableStart = 0
    /\ handed = <<>>
    /\ origin = <<>>
    /\ textTried = {}
    /\ nRows = 0
    /\ limits = [pages |-> npages, rows |-> nrows]
    /\ GlossaryIdle

InitTables == StartOfExtract(MaxPages, MaxRows)

InitPage == StartOfExtract(1, MaxPageRows)

\* the table at hand is left: its history is dropped with it
NoTable ==
    /\ header' = <<>>
    /\ current_week_num' = None
    /\ current_cells' = None
    /\ rowsSeen' = <<>>
    /\ tableStart' = Len(weeks)

\* for page in pdf.pages: before = len(weeks); the line tables come first
NextPage ==
    /\ pc = "pages"
    /\ pageNo < limits.pages
    /\ pageNo' = pageNo + 1
    /\ before' = Len(weeks)
    /\ strategy' = "lines"
    /\ pc' = "tables"
    /\ UNCHANGED <<textVars, glossVars, weeks, header, current_week_num, current_cells,
                   rowsSeen, tableStart, handed, origin, textTried, nRows, limits>>

\* the pages are exhausted: return weeks
Return ==
    /\ pc = "pages"
    /\ pc' = "returned"
    /\ UNCHANGED <<textVars, tableVars, glossVars>>

\* parse_table returns at once: fewer than 2 rows, or a header of no known shape
RejectTable ==
    /\ pc = "tables"
    /\ \E row0 \in HeaderRows, short \in BOOLEAN :
        short \/ ~HeaderAccepted(NormalizedHeader(row0))
    /\ NoTable
    /\ UNCHANGED <<pc, textVars, glossVars, weeks, pageNo, strategy, before, handed, origin,
                   textTried, nRows, limits>>

\* parse_table accepts the header of a table of 2 rows or more: no week is active
BeginTable ==
    /\ pc = "tables"
    /\ nRows < limits.rows
    /\ \E row0 \in HeaderRows :
        /\ HeaderAccepted(NormalizedHeader(row0))
        /\ header' = NormalizedHeader(row0)
    /\ rowsSeen' = <<>>
    /\ tableStart' = Len(weeks)
    /\ current_week_num' = None
    /\ current_cells' = None
    /\ pc' = "rows"
    /\ UNCHANGED <<textVars, glossVars, weeks, pageNo, strategy, before, handed, origin,
                   textTried, nRows, limits>>

\* flush_week: the active week, if any, is parsed and appended
Flushed(doIt) ==
    IF doIt
    THEN /\ weeks' = Append(weeks, WeekOf(current_cells[1]))
         /\ handed' = Append(handed, current_cells[1])
         /\ origin' = Append(origin, [page |-> pageNo, strategy |-> strategy])
    ELSE UNCHANGED <<weeks, handed, origin>>

\* lines 270-305: the cleaned row and its 7 weekday cells
RowHandled(row, cells) ==
    /\ rowsSeen' = Append(rowsSeen, row)
    /\ IF RowSkipped(row)
       THEN UNCHANGED <<weeks, handed, origin, current_week_num, current_cells>>
       ELSE IF RowIsNewWeek(header, row)
       THEN /\ Flushed(~NothingToFlush(current_week_num, current_cells))
            /\ current_week_num' = Some(RowWeekMarker(header, row, Len(weeks)))
            /\ current_cells' = Some(cells)
       ELSE IF current_cells = None
       THEN UNCHANGED <<weeks, handed, origin, current_week_num, current_cells>>
       ELSE /\ current_cells' =
                  Some(Built([i \in 1..NDays |-> JoinCell(current_cells[1][i], cells[i])]))
            /\ UNCHANGED <<weeks, handed, origin, current_week_num>>

\* lines 276-288
CleanRowHandled(row) == RowHandled(row, RowCells(header, row))

\* one turn of "for row in rows"
BodyRow ==
    /\ pc = "rows"
    /\ nRows < limits.rows
    /\ nRows' = nRows + 1
    /\ \E raw \in BodyRows : CleanRowHandled(CleanRow(raw))
    /\ UNCHANGED <<pc, textVars, glossVars, pageNo, strategy, before, header, tableStart, textTried,
                   limits>>

\* the rows are exhausted: the closing flush_week, and parse_table returns
EndTable ==
    /\ pc = "rows"
    /\ rowsSeen # <<>>
    /\ Flushed(FlushAtEnd(current_week_num, current_cells))
    /\ current_week_num' = None
    /\ current_cells' = None
    /\ pc' = "tables"
    /\ UNCHANGED <<textVars, glossVars, pageNo, strategy, before, header, rowsSeen, tableStart,
                   textTried, nRows, limits>>

\* the line tables are exhausted: fall back to the text tables, or go on
EndLineTables ==
    /\ pc = "tables"
    /\ strategy = "lines"
    /\ IF FallbackNeeded(Len(weeks), before)
       THEN /\ strategy' = "text"
            /\ textTried' = textTried \cup {pageNo}
            /\ pc' = "tables"
       ELSE /\ pc' = "pages"
            /\ UNCHANGED <<strategy, textTried>>
    /\ NoTable
    /\ UNCHANGED <<textVars, glossVars, weeks, pageNo, before, handed, origin, nRows, limits>>

\* the text tables are exhausted
EndTextTables ==
    /\ pc = "tables"
    /\ strategy = "text"
    /\ pc' = "pages"
    /\ NoTable
    /\ UNCHANGED <<textVars, glossVars, weeks, pageNo, strategy, before, handed, origin,
                   textTried, nRows, limits>>

NextTables ==
    \/ NextPage \/ Return \/ RejectTable \/ BeginTable
    \/ BodyRow \/ EndTable \/ EndLineTables \/ EndTextTables

SpecTables == InitTables /\ [][NextTables]_vars

SpecPage == InitPage /\ [][NextTables]_vars

---------------------------------------------------------------------------
(* Specification of the glossary extractor: the two halves of the last     *)
(* page are given, and extract_glossary resolves the entries.              *)

MaxGlossFrags == 2

GlossFragments ==
    { <<"E", "a", "s", "y", ":", " ", "s", "l", "o", "w", " ">>,
      <<"e", "a", "s", "y", " ", ":", "H", "i", "l", "l", "s", " ">>,
      <<"l", "o", "n", "g", " ", "r", "u", "n", " ">>,
      <<"-", " ", "T", "e", "m", "p", "o", ":", " ">> }

InitGlossary ==
    /\ pc = "start"
    /\ IdleText
    /\ TablesIdle
    /\ left_raw \in TextsOf(GlossFragments, MaxGlossFrags)
    /\ right_raw \in TextsOf(GlossFragments, MaxGlossFrags)
    /\ glossary = NoGlossary

ExtractGlossary ==
    /\ pc = "start"
    /\ glossary' = extract_glossary(left_raw, right_raw)
    /\ pc' = "glossary"
    /\ UNCHANGED <<textVars, tableVars, left_raw, right_raw>>

NextGlossary == ExtractGlossary

SpecGlossary == InitGlossary /\ [][NextGlossary]_vars

---------------------------------------------------------------------------
(* Properties of the cleaner, under SpecClean.                             *)

\* C3: cleaning is idempotent: cleaning a cleaned text changes nothing,
\* clean_cell_text(clean_cell_text(x)) = clean_cell_text(x) for every text x.
CleanIdempotent == pc = "recleaned" => recleaned = cleaned

---------------------------------------------------------------------------
(* Properties of the metric extractor, under SpecMetrics.                  *)

\* the distance match parse_metrics selects in the text: the first range
\* match if the range pattern matches, else the first single match; its unit
\* token, and its value (the larger endpoint for a range)
SelectedIsRange == FirstMatch(Lower(text), DistanceRangeEnd) > 0
SelectedExists == SelectedIsRange \/ FirstMatch(Lower(text), DistanceEnd) > 0
SelectedUnit ==
    IF SelectedIsRange
    THEN DistanceRangeGroups(Lower(text), FirstMatch(Lower(text), DistanceRangeEnd)).unit
    ELSE DistanceGroups(Lower(text), FirstMatch(Lower(text), DistanceEnd)).unit
SelectedValue ==
    IF SelectedIsRange
    THEN LET g == DistanceRangeGroups(Lower(text), FirstMatch(Lower(text), DistanceRangeEnd))
         IN  IF DecGeq(g.v2, g.v1) THEN g.v2 ELSE g.v1
    ELSE DistanceGroups(Lower(text), FirstMatch(Lower(text), DistanceEnd)).val

\* the text holds a standalone "x", "rep", "reps", "stride", "strides" or
\* "interval", in any case
HasRepetitionCue ==
    \E w \in { <<"x">>, <<"r", "e", "p">>, <<"r", "e", "p", "s">>,
               <<"s", "t", "r", "i", "d", "e">>, <<"s", "t", "r", "i", "d", "e", "s">>,
               <<"i", "n", "t", "e", "r", "v", "a", "l">> } :
        \E i \in 1..Len(text) :
            /\ LitAt(Lower(text), i, w)
            /\ (i = 1 \/ ~IsWordChar(text[i - 1]))
            /\ (i + Len(w) > Len(text) \/ ~IsWordChar(text[i + Len(w)]))

NoDistance ==
    /\ metrics.distance_value = None /\ metrics.distance_unit = "None"
    /\ metrics.distance_range = None
    /\ metrics.distance_miles = None /\ metrics.distance_miles_range = None
    /\ metrics.distance_km = None /\ metrics.distance_km_range = None
    /\ metrics.distance_meters = None /\ metrics.distance_meters_range = None

\* C5: for every accepted range match v1-v2 <unit>, parse_metrics records the
\* range [v1, v2] and sets the representative value, distance_value and the
\* field of the unit, to the larger of v1 and v2, also when v1 > v2.
RangeKeepsLarger ==
    (pc = "metrics" /\ metrics.distance_range # None) =>
        LET v1 == metrics.distance_range[1]
            v2 == metrics.distance_range[2]
            larger == IF DecGeq(v2, v1) THEN v2 ELSE v1
        IN  /\ metrics.distance_value = Some(larger)
            /\ metrics.distance_unit = "miles" => metrics.distance_miles = Some(larger)
            /\ metrics.distance_unit = "km" => metrics.distance_km = Some(larger)
            /\ metrics.distance_unit = "m" => metrics.distance_meters = Some(larger)

\* C6: when the selected distance match has the bare unit "m", meters are
\* recorded if and only if its value (the larger endpoint of a range) is at
\* least 100 or the text holds a standalone x, rep(s), stride(s) or interval;
\* otherwise every distance field is null and the whole text is what the
\* duration patterns are applied to.
BareMeterRule ==
    (pc = "metrics" /\ SelectedExists /\ SelectedUnit = <<"m">>) =>
        LET accepted == DecGeq(SelectedValue, [n |-> 100, k |-> 0]) \/ HasRepetitionCue
        IN  /\ accepted <=> metrics.distance_meters # None
            /\ accepted => /\ metrics.distance_unit = "m"
                           /\ metrics.distance_value # None
                           /\ metrics.distance_km # None
                           /\ metrics.distance_miles = None
            /\ ~accepted => NoDistance /\ rest = Lower(text)

\* a bare "m" of a small value and no cue: no distance, and the text is read
\* as minutes
BareMeterRejected ==
    /\ pc = "metrics" /\ SelectedExists /\ SelectedUnit = <<"m">>
    /\ ~DecGeq(SelectedValue, [n |-> 100, k |-> 0]) /\ ~HasRepetitionCue
    /\ NoDistance
    /\ metrics.duration_minutes = Some(3)

---------------------------------------------------------------------------
(* Properties of the cell parser, under SpecCell.                          *)

\* C2: if at least one segment of the cell is classified "rest", the cell's
\* type_guess is "rest", whatever the number, order and types of the others.
RestHasPriority ==
    (pc = "parsed" /\ \E j \in DOMAIN cell.segments_parsed :
                         cell.segments_parsed[j].type = "rest")
        => cell.type_guess = "rest"

\* a rest segment that follows a segment of another known type
RestAfterOther ==
    /\ pc = "parsed"
    /\ \E i, j \in DOMAIN cell.segments_parsed :
        /\ i < j
        /\ cell.segments_parsed[i].type \notin {"rest", "unknown"}
        /\ cell.segments_parsed[j].type = "rest"

\* C4: a cell whose text begins with "est;" in any case is cleaned to a text
\* that begins with "Rest;", and parse_cell classifies that segment, and the
\* cell's type_guess, as "rest".
EstCellIsRest ==
    (pc = "parsed" /\ LitAt(Lower(text), 1, <<"e", "s", "t", ";">>)) =>
        /\ LitAt(cell.raw, 1, <<"R", "e", "s", "t", ";">>)
        /\ Len(cell.segments_parsed) >= 1
        /\ cell.segments_parsed[1].type = "rest"
        /\ cell.type_guess = "rest"

---------------------------------------------------------------------------
(* Properties of extract_tables, under SpecPage and SpecTables.  The table *)
(* at hand is the one whose body rows, as line 269 cleans them, are        *)
(* rowsSeen, and whose weeks stand after tableStart in the output.         *)

DayNames ==
    {"monday", "tuesday", "wednesday", "thursday", "friday", "saturday", "sunday"}

DayCellFields == {"raw", "segments", "segments_parsed", "type_guess", "metrics"}

\* C1: every emitted week has a days mapping of exactly the seven keys
\* monday..sunday, each mapped to a DayCell, whatever the lengths of the rows.
WeekComplete ==
    \A k \in 1..Len(weeks) :
        /\ DOMAIN weeks[k] = {"days"}
        /\ DOMAIN weeks[k].days = DayNames
        /\ \A d \in DayNames : DOMAIN weeks[k].days[d] = DayCellFields

\* two weeks of a table whose rows have fewer than 7 and more than 8 cells
WeeksOfOddRows ==
    /\ pc = "tables"
    /\ Len(weeks) - tableStart >= 2
    /\ \E i, j \in DOMAIN rowsSeen : Len(rowsSeen[i]) < 7 /\ Len(rowsSeen[j]) > 8
    /\ \E k \in 1..Len(weeks) : weeks[k].days["sunday"] = EmptyDayCell

\* of the row at position i of the table at hand: whether the loop passes
\* over it; whether it starts a week; its 7 weekday cells
PassedOver(i) == rowsSeen[i] = <<>> \/ Upper(rowsSeen[i][1]) = T_WEEK
StartsWeek(i) == ~PassedOver(i) /\ RowIsNewWeek(header, rowsSeen[i])
CellsAt(i) == RowCells(header, rowsSeen[i])

\* the positions of the new-week rows of the table at hand, in row order
NewWeekRows ==
    SelectSeq([i \in 1..Len(rowsSeen) |-> i], LAMBDA i : StartsWeek(i))

\* the weeks the table at hand has emitted so far
Emitted == Len(weeks) - tableStart

\* C8: the weeks a table emits correspond one-to-one and in row order to its
\* new-week rows: a new-week row's week is appended when the next new-week row
\* arrives or at the end of the table, none is lost or emitted twice, and
\* rows before the first new-week row emit nothing and change nothing.
WeeksMatchNewWeekRows ==
    (pc \in {"rows", "tables"} /\ HeaderAccepted(header)) =>
        /\ pc = "rows" =>
            /\ current_cells # None <=> Len(NewWeekRows) > 0
            /\ Emitted = (IF Len(NewWeekRows) > 0 THEN Len(NewWeekRows) - 1 ELSE 0)
        /\ pc = "tables" => (current_cells = None /\ Emitted = Len(NewWeekRows))
        /\ Len(NewWeekRows) = 0 =>
            (Emitted = 0 /\ current_cells = None /\ current_week_num = None)
        /\ \A k \in 1..Emitted : \A d \in 1..7 :
            LET first == CellsAt(NewWeekRows[k])[d]
            IN  /\ SubSeq(handed[tableStart + k][d], 1, Len(first)) = first
                /\ weeks[tableStart + k].days[DAY_KEYS[d]].raw
                     = clean_cell_text(handed[tableStart + k][d])

\* a table that ended with two weeks, of two new-week rows that followed a
\* continuation row with no active week
TwoWeeksAfterStrayRow ==
    /\ pc = "tables" /\ HeaderAccepted(header)
    /\ Len(NewWeekRows) = 2 /\ Emitted = 2
    /\ NewWeekRows[1] > 1 /\ ~PassedOver(1)
    /\ \E d \in 1..7 : CellsAt(1)[d] # <<>>

\* the texts ps joined by single spaces
RECURSIVE SpaceJoin(_)
SpaceJoin(ps) ==
    IF ps = <<>> THEN <<>>
    ELSE IF Len(ps) = 1 THEN ps[1]
    ELSE ps[1] \o <<" ">> \o SpaceJoin(Tail(ps))

\* the last row of the k-th week of the table at hand: the row before the
\* next new-week row, or the last row seen
LastRowOf(k) ==
    IF k < Len(NewWeekRows) THEN NewWeekRows[k + 1] - 1 ELSE Len(rowsSeen)

\* the text of day position d of the k-th week of the table at hand: the
\* non-empty texts among the new-week row's cell and the cells of the
\* continuation rows after it, in row order, joined by single spaces (an empty
\* cell contributes neither text nor space)
WeekText(k, d) ==
    LET rows == SelectSeq([i \in 1..(LastRowOf(k) - NewWeekRows[k] + 1) |->
                              NewWeekRows[k] + i - 1],
                          LAMBDA i : ~PassedOver(i) /\ CellsAt(i)[d] # <<>>)
    IN  SpaceJoin([j \in 1..Len(rows) |-> CellsAt(rows[j])[d]])

WeekTextsJoined ==
    (pc \in {"rows", "tables"} /\ HeaderAccepted(header)) =>
        /\ \A k \in 1..Emitted : \A d \in 1..7 :
            handed[tableStart + k][d] = WeekText(k, d)
        /\ current_cells # None =>
            \A d \in 1..7 : current_cells[1][d] = WeekText(Len(NewWeekRows), d)

\* a step keeps every week already in the output, and what was handed for it
EmittedWeeksKept ==
    /\ Len(weeks') >= Len(weeks)
    /\ SubSeq(weeks', 1, Len(weeks)) = weeks
    /\ SubSeq(handed', 1, Len(handed)) = handed

\* C9: for every emitted week and day position, the text handed to parse_cell
\* is the new-week row's cell text followed by the non-empty cell texts of the
\* continuation rows up to the next new-week row or the end of the table, in
\* row order, joined by single spaces; a continuation row leaves a day position
\* unchanged where its own cell is empty; and no step alters a week of another
\* table or a week already emitted.
ContinuationJoins == []WeekTextsJoined /\ [][EmittedWeeksKept]_vars

\* an emitted week in which a continuation text joined the new-week row's
\* text at one day, a continuation text filled an empty day, and an empty
\* continuation cell left a day as it was
JoinedAndUntouched ==
    /\ pc = "tables" /\ HeaderAccepted(header) /\ Emitted >= 1
    /\ \E k \in 1..Emitted : \E i \in (NewWeekRows[k] + 1)..LastRowOf(k) :
        \E d1, d2, d3 \in 1..7 :
            /\ ~PassedOver(i)
            /\ CellsAt(NewWeekRows[k])[d1] # <<>> /\ CellsAt(i)[d1] # <<>>
            /\ handed[tableStart + k][d1] # CellsAt(NewWeekRows[k])[d1]
            /\ CellsAt(NewWeekRows[k])[d2] = <<>> /\ CellsAt(i)[d2] # <<>>
            /\ CellsAt(NewWeekRows[k])[d3] # <<>> /\ CellsAt(i)[d3] = <<>>
            /\ handed[tableStart + k][d3] = CellsAt(NewWeekRows[k])[d3]

\* the pages whose tables have all been read
PagesDone == IF pc \in {"pages", "returned"} THEN 1..pageNo ELSE 1..(pageNo - 1)

WeeksOf(p, s) == {k \in 1..Len(origin) : origin[k].page = p /\ origin[k].strategy = s}

\* C10: on every page the ruled-lines strategy comes first and the text
\* strategy is applied if and only if the ruled-lines tables of that page added
\* no week; so the weeks of one page come from one strategy, and weeks of
\* earlier pages do not suppress the fallback on a later page.
FallbackIffNoLineWeeks ==
    /\ \A p \in PagesDone : p \in textTried <=> WeeksOf(p, "lines") = {}
    /\ \A p \in 1..pageNo :
        /\ WeeksOf(p, "text") # {} => (p \in textTried /\ WeeksOf(p, "lines") = {})
        /\ WeeksOf(p, "lines") # {} => p \notin textTried
    /\ (pc \in {"tables", "rows"} /\ strategy = "text") =>
        (pageNo \in textTried /\ WeeksOf(pageNo, "lines") = {})
    /\ (pc \in {"tables", "rows"} /\ strategy = "lines") => pageNo \notin textTried
    /\ Len(origin) = Len(weeks)

\* the first page gave weeks by ruled lines, and the second page, whose
\* ruled-lines tables gave none, gave a week by the text strategy
FallbackOnLaterPage ==
    /\ pc = "returned"
    /\ WeeksOf(1, "lines") # {}
    /\ 2 \in textTried
    /\ WeeksOf(2, "text") # {}

---------------------------------------------------------------------------
(* Properties of the glossary extractor, under SpecGlossary.               *)

LeftEntries == parse_column(normalize_text(left_raw))
RightEntries == parse_column(normalize_text(right_raw))

\* C7: for every label matched in at least one column the emitted definition
\* is the candidate of the greater word count, the left column's when the
\* counts are equal; a label matched in neither column has no entry.
LongerDefinitionKept ==
    pc = "glossary" =>
        LET l == LeftEntries
            r == RightEntries
            e == glossary.entries
        IN  \A k \in DOMAIN LABELS :
                LET key == Lower(LABELS[k])
                    inL == key \in DOMAIN l
                    inR == key \in DOMAIN r
                IN  /\ key \in DOMAIN e <=> (inL \/ inR)
                    /\ (inL /\ ~inR) => e[key].definition = l[key]
                    /\ (inR /\ ~inL) => e[key].definition = r[key]
                    /\ (inL /\ inR) =>
                        e[key].definition =
                            IF WordCount(r[key]) > WordCount(l[key]) THEN r[key] ELSE l[key]

\* both columns define a label, in different words of equal count, and the
\* left column's definition is kept; another label has no entry
TieKeepsLeft ==
    /\ pc = "glossary"
    /\ \E key \in DOMAIN LeftEntries \cap DOMAIN RightEntries :
        /\ LeftEntries[key] # RightEntries[key]
        /\ WordCount(LeftEntries[key]) = WordCount(RightEntries[key])
        /\ WordCount(LeftEntries[key]) > 0
        /\ glossary.entries[key].definition = LeftEntries[key]
    /\ \E k \in DOMAIN LABELS : Lower(LABELS[k]) \notin DOMAIN glossary.entries

=============================================================================
